---- MODULE Spec2Model ----
(***************************************************************************)
(* Model of the audio file fetch engine of librespot                       *)
(* (audio/src/fetch/receive.rs): the engine loop audio_file_fetch, the     *)
(* dispatch primitive download_range, the prefetch pass and the per-request *)
(* receiver tasks receive_data, with the shared download status.           *)
(*                                                                         *)
(* Byte ranges are modelled as sets of byte offsets; a RangeSet is the set *)
(* of the offsets it contains.  Sizes are scaled down (a word is still 4   *)
(* bytes).                                                                 *)
(***************************************************************************)
EXTENDS Integers, Sequences, FiniteSets, TLC

\* ---------------------------------------------------------------- bounds
FileSizes == {6, 8}            \* file sizes tried (one not word aligned)
InitialLengths == {4}          \* length of the initial request
ChunkSizes == {2, 5}           \* chunk sizes the transport delivers
MaxDispatch == 1               \* requests download_range may dispatch (Spec)
MaxCommands == 1               \* commands the engine processes in a run
MaxSamples == 5                \* latency samples fed in SpecPing
ReadPositions == {0, 4}        \* read cursor positions the reader sets
FetchStarts == {0, 5}          \* Fetch command start offsets
FetchLengths == {1}            \* Fetch command lengths
Durations == {5}              \* measured time to first chunk (ms)
DownloadRates == {0, 2000}     \* transport download rate estimates (bytes/s)
StreamFileSizes == {16}        \* file sizes tried in SpecStream
MaxStreamDispatch == 3         \* requests download_range may dispatch there
StreamChunkSizes == {4}        \* chunk sizes the transport delivers there
StreamFetchStarts == {8}       \* Fetch command start offsets there

\* ------------------------------------------------------ program constants
\* The tunable constants come from the fetch module (imported at the top of
\* receive.rs); the model gives them values of the size of its files.  The
\* two prefetch factors are reals in the code; the model uses 4 and 3/2.
WORD == 4
MINIMUM_DOWNLOAD_SIZE == 12
MAX_PREFETCH_REQUESTS == 2
MAXIMUM_ASSUMED_PING_TIME_MS == 3
PREFETCH_THRESHOLD_FACTOR == 4
FAST_PREFETCH_THRESHOLD_FACTOR_X2 == 3
\* shared.stream_data_rate of the file (bytes/s)
STREAM_DATA_RATE == 500
\* samples kept in network_response_times_ms
MAX_WINDOW == 3

VARIABLES
  file_size,                  \* shared.file_size
  dispatch_limit,             \* requests download_range may dispatch
  waiting,                    \* the reader: running, blocked on cond, woken
  read_position,              \* shared.read_position (atomic)
  download_strategy,          \* shared.download_strategy
  ping_time_ms,               \* shared.ping_time_ms (atomic)
  requested,                  \* shared.download_status.requested
  downloaded,                 \* shared.download_status.downloaded
  poisoned,                   \* the download_status mutex is poisoned
  enginePc,                   \* position of the engine task
  number_of_open_requests,    \* fetch.number_of_open_requests
  network_response_times_ms,  \* fetch.network_response_times_ms
  output,                     \* byte offsets written to the output file
  handoffs,                   \* outputs sent on complete_tx
  prefetch,                   \* locals of the running prefetch pass
  file_data,                  \* inbox: ReceivedData events in flight
  finish_queue,               \* completion signals in flight
  commands,                   \* commands processed: their count, the last one
  receivers,                  \* the receive_data tasks, in dispatch order
  samples                     \* every latency sample processed, in order

vars == <<file_size, dispatch_limit, waiting,
          read_position, download_strategy, ping_time_ms,
          requested, downloaded, poisoned, enginePc,
          number_of_open_requests, network_response_times_ms, output,
          handoffs, prefetch, file_data, finish_queue, commands,
          receivers, samples>>

\* ------------------------------------------------------------- RangeSet
\* Range::new(start, length) as the set of its byte offsets
Range(start, length) == start .. (start + length - 1)

Min(S) == CHOOSE x \in S : \A y \in S : x <= y

Max2(a, b) == IF a >= b THEN a ELSE b

Min2(a, b) == IF a <= b THEN a ELSE b

\* length of the contiguous range of S that starts at s (s in S)
RunLength(S, s) ==
  CHOOSE n \in 1..Cardinality(S) : Range(s, n) \subseteq S /\ (s + n) \notin S

\* RangeSet::iter: the disjoint, non-adjacent ranges of S ordered by start
RECURSIVE Ranges(_)
Ranges(S) ==
  IF S = {} THEN <<>>
  ELSE LET s == Min(S)
           n == RunLength(S, s)
       IN <<[start |-> s, length |-> n]>> \o Ranges(S \ Range(s, n))

\* RangeSet::get_range(0)
FirstRange(S) == Ranges(S)[1]

\* RangeSet::contained_length_from_value
contained_length_from_value(S, value) ==
  IF value \in S THEN RunLength(S, value) ELSE 0

\* -------------------------------------------------- the condition variable
\* the wake-up as it would be if the notification were left out
notify_lost == waiting' = waiting

\* shared.cond.notify_all(): every thread blocked on the condition variable
\* is woken (and checks its bytes again once it gets the lock)
notify_all == waiting' = IF waiting = "blocked" THEN "woken" ELSE waiting

\* ------------------------------------------------------------ receivers
\* the state of a receive_data task spawned for [offset, offset + length)
NewReceiver(offset, length, measure) ==
  [offset |-> offset, length |-> length,
   data_offset |-> offset, request_length |-> length,
   measure_ping_time |-> measure, flagged |-> measure,
   pc |-> "loop", signals |-> 0]

EngineRunning == enginePc \in {"select", "prefetch_loop", "prefetch_call"}

NoPrefetch == [bytes_to_go |-> 0, requests_to_go |-> 0,
               offset |-> 0, length |-> 0,
               by |-> "none", start |-> 0, ahead |-> FALSE]

\* the duration of the first chunk, clamped to the maximum assumed ping time
ClampDuration(duration) ==
  IF duration > MAXIMUM_ASSUMED_PING_TIME_MS
  THEN MAXIMUM_ASSUMED_PING_TIME_MS ELSE duration

\* the events of a chunk as they would be if the excess bytes were cut off
ChunkEvents_Clipped(r, size, duration) ==
  IF ~EngineRunning THEN <<>>
  ELSE (IF receivers[r].measure_ping_time
        THEN <<[kind |-> "ResponseTimeMs", ms |-> ClampDuration(duration),
                offset |-> 0, len |-> 0, rid |-> r]>>
        ELSE <<>>)
       \o <<[kind |-> "Data", ms |-> 0,
             offset |-> receivers[r].data_offset,
             len |-> IF size < receivers[r].request_length THEN size
                     ELSE receivers[r].request_length,
             rid |-> r]>>

\* the events of a chunk as they would be if the sample were posted last
ChunkEvents_DataFirst(r, size, duration) ==
  IF ~EngineRunning THEN <<>>
  ELSE <<[kind |-> "Data", ms |-> 0,
          offset |-> receivers[r].data_offset, len |-> size, rid |-> r]>>
       \o (IF receivers[r].measure_ping_time
           THEN <<[kind |-> "ResponseTimeMs", ms |-> ClampDuration(duration),
                   offset |-> 0, len |-> 0, rid |-> r]>>
           ELSE <<>>)

\* events a receiver posts to the inbox for one chunk; a send on a channel
\* whose receiving end is gone (the engine has stopped) is dropped
ChunkEvents(r, size, duration) ==
  IF ~EngineRunning THEN <<>>
  ELSE (IF receivers[r].measure_ping_time
        THEN <<[kind |-> "ResponseTimeMs", ms |-> ClampDuration(duration),
                offset |-> 0, len |-> 0, rid |-> r]>>
        ELSE <<>>)
       \o <<[kind |-> "Data", ms |-> 0,
             offset |-> receivers[r].data_offset, len |-> size, rid |-> r]>>

\* receive_data, one iteration of the loop that gets Some(Ok(data))
RecvChunk(r, size, duration) ==
  /\ receivers[r].pc = "loop"
  /\ receivers[r].measure_ping_time \/ duration = Min(Durations)
  /\ LET rec == receivers[r]
         left == IF rec.request_length < size THEN 0
                 ELSE rec.request_length - size
     IN /\ file_data' = file_data \o ChunkEvents(r, size, duration)
        /\ receivers' = [receivers EXCEPT ![r] =
             [rec EXCEPT !.data_offset = rec.data_offset + size,
                         !.request_length = left,
                         !.measure_ping_time = FALSE,
                         !.pc = IF left = 0 THEN "finish" ELSE "loop"]]
  /\ UNCHANGED <<file_size, dispatch_limit, waiting,
                 read_position, download_strategy, ping_time_ms,
                 requested, downloaded, poisoned, enginePc,
                 number_of_open_requests, network_response_times_ms, output,
                 handoffs, prefetch, finish_queue, commands, samples>>

\* the end of the loop as it would be if the retraction were left to later
RecvStop_NoRetraction(r, res) ==
  /\ receivers[r].pc = "loop"
  /\ res \in {"ok", "err"}
  /\ receivers' = [receivers EXCEPT ![r].pc = "finish"]
  /\ UNCHANGED <<file_size, dispatch_limit, waiting, requested,
                 read_position, download_strategy, ping_time_ms,
                 downloaded, poisoned, enginePc, number_of_open_requests,
                 network_response_times_ms, output, handoffs, prefetch,
                 file_data, finish_queue, commands, samples>>

\* receive_data, the loop ends with bytes missing (None: res = "ok",
\* Some(Err): res = "err", which differ only in the warning logged); the
\* unfulfilled trailing range is subtracted from requested under the lock,
\* and lock().unwrap() panics on a poisoned mutex
RecvStop(r, res) ==
  /\ receivers[r].pc = "loop"
  /\ res \in {"ok", "err"}
  /\ LET rec == receivers[r]
     IN IF rec.request_length > 0 /\ poisoned
        THEN /\ receivers' = [receivers EXCEPT ![r].pc = "panicked"]
             /\ UNCHANGED <<requested, waiting>>
        ELSE /\ receivers' = [receivers EXCEPT ![r].pc = "finish"]
             /\ requested' =
                  requested \ Range(rec.data_offset, rec.request_length)
             /\ notify_all
  /\ UNCHANGED <<file_size, dispatch_limit,
                 read_position, download_strategy, ping_time_ms,
                 downloaded, poisoned, enginePc, number_of_open_requests,
                 network_response_times_ms, output, handoffs, prefetch,
                 file_data, finish_queue, commands, samples>>

\* the completion signal as it would be if a failed send were unwrapped
RecvFinish_Unwrap(r) ==
  /\ receivers[r].pc = "finish"
  /\ receivers' = [receivers EXCEPT ![r] =
       IF EngineRunning THEN [@ EXCEPT !.pc = "done", !.signals = @ + 1]
       ELSE [@ EXCEPT !.pc = "panicked"]]
  /\ finish_queue' = IF EngineRunning THEN finish_queue + 1 ELSE finish_queue
  /\ UNCHANGED <<file_size, dispatch_limit, waiting,
                 read_position, download_strategy, ping_time_ms,
                 requested, downloaded, poisoned, enginePc,
                 number_of_open_requests, network_response_times_ms, output,
                 handoffs, prefetch, file_data, commands, samples>>

\* receive_data, finish_tx.send(()): the result of the send is ignored
RecvFinish(r) ==
  /\ receivers[r].pc = "finish"
  /\ receivers' = [receivers EXCEPT ![r] =
       [@ EXCEPT !.pc = "done", !.signals = @ + 1]]
  /\ finish_queue' = IF EngineRunning THEN finish_queue + 1 ELSE finish_queue
  /\ UNCHANGED <<file_size, dispatch_limit, waiting,
                 read_position, download_strategy, ping_time_ms,
                 requested, downloaded, poisoned, enginePc,
                 number_of_open_requests, network_response_times_ms, output,
                 handoffs, prefetch, file_data, commands, samples>>

\* ---------------------------------------------------------- download_range
Aligned(range) == range.start % WORD = 0 /\ range.length % WORD = 0

\* the byte range as it would be if the minimum size were not enforced
ClippedRange_NoMinimum(offset, length) ==
  LET length2 == IF offset + length > file_size
                 THEN file_size - offset ELSE length
      length3 == IF offset % WORD # 0 THEN length2 + (offset % WORD)
                 ELSE length2
      offset3 == IF offset % WORD # 0 THEN offset - (offset % WORD) ELSE offset
      length4 == IF length3 % WORD # 0
                 THEN length3 + (WORD - (length3 % WORD)) ELSE length3
  IN IF offset >= file_size \/ length = 0 THEN {}
     ELSE Range(offset3, length4)

\* the byte range as it would be if the length were aligned downwards
ClippedRange_AlignDown(offset, length) ==
  LET length1 == IF length < MINIMUM_DOWNLOAD_SIZE
                 THEN MINIMUM_DOWNLOAD_SIZE ELSE length
      length2 == IF offset + length1 > file_size
                 THEN file_size - offset ELSE length1
      length3 == IF offset % WORD # 0 THEN length2 + (offset % WORD)
                 ELSE length2
      offset3 == IF offset % WORD # 0 THEN offset - (offset % WORD) ELSE offset
      length4 == length3 - (length3 % WORD)
  IN IF offset >= file_size \/ length1 = 0 THEN {}
     ELSE Range(offset3, length4)

\* the byte range download_range settles on before it looks at the download
\* status: minimum size, file bounds, alignment by 4
ClippedRange(offset, length) ==
  LET length1 == IF length < MINIMUM_DOWNLOAD_SIZE
                 THEN MINIMUM_DOWNLOAD_SIZE ELSE length
      length2 == IF offset + length1 > file_size
                 THEN file_size - offset ELSE length1
      length3 == IF offset % WORD # 0 THEN length2 + (offset % WORD)
                 ELSE length2
      offset3 == IF offset % WORD # 0 THEN offset - (offset % WORD) ELSE offset
      length4 == IF length3 % WORD # 0
                 THEN length3 + (WORD - (length3 % WORD)) ELSE length3
  IN IF offset >= file_size \/ length1 = 0 THEN {}
     ELSE Range(offset3, length4)

\* download_range as it would be if it did not subtract the requested set
RangesToRequest_IgnoreRequested(offset, length) ==
  Ranges(ClippedRange(offset, length) \ downloaded)

\* ranges_to_request of download_range
RangesToRequest(offset, length) ==
  Ranges((ClippedRange(offset, length) \ downloaded) \ requested)

\* how many of the ranges request_range accepts before an assertion fails
Accepted(ranges) ==
  CHOOSE k \in 0..Len(ranges) :
    /\ \A i \in 1..k : Aligned(ranges[i])
    /\ k = Len(ranges) \/ ~Aligned(ranges[k + 1])

\* request_range fails an alignment assertion during download_range
AssertionFails(offset, length) ==
  LET ranges == RangesToRequest(offset, length)
  IN Accepted(ranges) < Len(ranges)

\* download_range: requests every accepted range; an assertion failure in
\* request_range unwinds the engine task while it holds the lock, which
\* poisons the mutex and drops the receiving ends of the engine's channels
download_range(offset, length, pcAfter) ==
  LET ranges == RangesToRequest(offset, length)
      k == Accepted(ranges)
  IN /\ Len(receivers) + k <= dispatch_limit + 1
     /\ requested' = requested \cup
          UNION {Range(ranges[i].start, ranges[i].length) : i \in 1..k}
     /\ receivers' = receivers \o
          [i \in 1..k |-> NewReceiver(ranges[i].start, ranges[i].length,
                                      number_of_open_requests + (i - 1) = 0)]
     /\ number_of_open_requests' = number_of_open_requests + k
     /\ IF k < Len(ranges)
        THEN /\ enginePc' = "panicked"
             /\ poisoned' = TRUE
             /\ file_data' = <<>>
             /\ finish_queue' = 0
        ELSE /\ enginePc' = pcAfter
             /\ UNCHANGED <<poisoned, file_data, finish_queue>>

\* ------------------------------------------------------- prefetch planning
\* missing_data of pre_fetch_more_data
Missing == (Range(0, file_size) \ downloaded) \ requested

\* tail_end as it would be if the read cursor were ignored
TailEnd_IgnoreCursor == Missing

\* tail_end of pre_fetch_more_data
TailEnd == Range(read_position, file_size - read_position) \cap Missing

\* desired_pending_bytes of trigger_preload for a download rate estimate
DesiredPendingBytes(download_rate) ==
  Max2((PREFETCH_THRESHOLD_FACTOR * ping_time_ms * STREAM_DATA_RATE) \div 1000,
       (FAST_PREFETCH_THRESHOLD_FACTOR_X2 * ping_time_ms * download_rate)
          \div 2000)

\* bytes_pending of trigger_preload
BytesPending == Cardinality(requested \ downloaded)

\* max_requests_to_send as it would be if it were one too small
MaxRequestsToSend_OffByOne(open) == MAX_PREFETCH_REQUESTS - open - 1

\* max_requests_to_send of trigger_preload
MaxRequestsToSend(open) == MAX_PREFETCH_REQUESTS - open

\* trigger_preload up to the call of pre_fetch_more_data; open is the
\* open-request count it sees; by (the handler that runs it), start (the
\* requests dispatched before it) and ahead (bytes were missing at or after
\* the read cursor) record how the pass began
trigger_preload(open, download_rate, by) ==
  IF open >= MAX_PREFETCH_REQUESTS
  THEN enginePc' = "select" /\ prefetch' = NoPrefetch
  ELSE IF BytesPending < DesiredPendingBytes(download_rate)
       THEN /\ enginePc' = "prefetch_loop"
            /\ prefetch' =
                 [bytes_to_go |-> DesiredPendingBytes(download_rate)
                                    - BytesPending,
                  requests_to_go |-> MaxRequestsToSend(open),
                  offset |-> 0, length |-> 0,
                  by |-> by, start |-> Len(receivers),
                  ahead |-> TailEnd # {}]
       ELSE enginePc' = "select" /\ prefetch' = NoPrefetch

\* pre_fetch_more_data, the head of one iteration of the while loop: choose
\* the range to ask download_range for
PrefetchChoose ==
  /\ enginePc = "prefetch_loop"
  /\ IF prefetch.bytes_to_go > 0 /\ prefetch.requests_to_go > 0
        /\ Missing # {}
     THEN LET range == IF TailEnd # {} THEN FirstRange(TailEnd)
                       ELSE FirstRange(Missing)
          IN /\ prefetch' =
                  [prefetch EXCEPT !.offset = range.start,
                     !.length = Min2(range.length, prefetch.bytes_to_go)]
             /\ enginePc' = "prefetch_call"
     ELSE enginePc' = "select" /\ prefetch' = NoPrefetch
  /\ UNCHANGED <<file_size, dispatch_limit, waiting,
                 read_position, download_strategy, ping_time_ms,
                 requested, downloaded, poisoned, number_of_open_requests,
                 network_response_times_ms, output, handoffs, file_data,
                 finish_queue, commands, receivers, samples>>

\* pre_fetch_more_data, the rest of the iteration: download_range and the
\* bookkeeping of the two budgets
PrefetchCall ==
  /\ enginePc = "prefetch_call"
  /\ download_range(prefetch.offset, prefetch.length, "prefetch_loop")
  /\ prefetch' =
       IF AssertionFails(prefetch.offset, prefetch.length) THEN prefetch
       ELSE [prefetch EXCEPT !.requests_to_go = @ - 1,
                             !.bytes_to_go = @ - prefetch.length,
                             !.offset = 0, !.length = 0]
  /\ UNCHANGED <<file_size, dispatch_limit, waiting,
                 read_position, download_strategy, ping_time_ms,
                 downloaded, network_response_times_ms, output, handoffs,
                 commands, samples>>

\* ------------------------------------------------------- latency estimate
\* the window as it would be if pruning dropped the newest samples
PushSample_KeepOldest(window, ms) ==
  LET pushed == Append(window, ms)
  IN IF Len(pushed) > MAX_WINDOW THEN SubSeq(pushed, 1, MAX_WINDOW)
     ELSE pushed

\* the window after a sample is pushed and old samples are pruned
PushSample(window, ms) ==
  LET pushed == Append(window, ms)
  IN IF Len(pushed) > MAX_WINDOW
     THEN SubSeq(pushed, Len(pushed) - MAX_WINDOW + 1, Len(pushed))
     ELSE pushed

\* times.sort_unstable(); times[1] for three samples
MedianOfThree(a, b, c) ==
  IF (a <= b /\ b <= c) \/ (c <= b /\ b <= a) THEN b
  ELSE IF (b <= a /\ a <= c) \/ (c <= a /\ a <= b) THEN a
  ELSE c

\* ping_time_ms computed from the window
PingEstimate(window) ==
  IF Len(window) = 1 THEN window[1]
  ELSE IF Len(window) = 2 THEN (window[1] + window[2]) \div 2
  ELSE MedianOfThree(window[1], window[2], window[3])

\* handle_file_data, ReceivedData::ResponseTimeMs
ResponseTimeMs(ms) ==
  /\ network_response_times_ms' = PushSample(network_response_times_ms, ms)
  /\ ping_time_ms' = PingEstimate(PushSample(network_response_times_ms, ms))
  /\ samples' = Append(samples, ms)

\* the completion test as it would be if it counted the downloaded bytes
Full_TotalLength(S) == Cardinality(S) >= file_size

\* the completion test as it would be with > in place of >=
Full_Strict(S) == contained_length_from_value(S, 0) > file_size

\* downloaded covers the file from offset 0
Full(S) == contained_length_from_value(S, 0) >= file_size

\* ------------------------------------------------------------- the engine
\* When the engine task ends, the receiving ends of its channels are dropped
\* with the events still queued on them.
\* audio_file_fetch, the data arm of the select: handle_file_data
HandleFileData ==
  /\ enginePc = "select"
  /\ file_data # <<>>
  /\ LET data == Head(file_data)
     IN /\ IF data.kind = "ResponseTimeMs"
           THEN /\ ResponseTimeMs(data.ms)
                /\ file_data' = Tail(file_data)
                /\ UNCHANGED <<output, downloaded, handoffs, enginePc,
                               finish_queue, waiting>>
           ELSE /\ output' = output \cup Range(data.offset, data.len)
                /\ downloaded' = downloaded \cup Range(data.offset, data.len)
                /\ notify_all
                /\ IF Full(downloaded')
                   THEN /\ handoffs' = handoffs + 1
                        /\ enginePc' = "complete"
                        /\ file_data' = <<>>
                        /\ finish_queue' = 0
                   ELSE /\ file_data' = Tail(file_data)
                        /\ UNCHANGED <<handoffs, enginePc, finish_queue>>
                /\ UNCHANGED <<network_response_times_ms, ping_time_ms,
                               samples>>
  /\ UNCHANGED <<file_size, dispatch_limit,
                 read_position, download_strategy, requested,
                 poisoned, number_of_open_requests, prefetch, commands,
                 receivers>>

\* handle_stream_loader_command, StreamLoaderCommand::Fetch
CmdFetch(start, length) ==
  /\ enginePc = "select"
  /\ commands.count < MaxCommands
  /\ commands' = [count |-> commands.count + 1, last |-> "Fetch"]
  /\ download_range(start, length, "select")
  /\ UNCHANGED <<file_size, dispatch_limit, waiting,
                 read_position, download_strategy, ping_time_ms,
                 downloaded, network_response_times_ms, output, handoffs,
                 prefetch, samples>>

\* handle_stream_loader_command, StreamLoaderCommand::RandomAccessMode
CmdRandomAccessMode ==
  /\ enginePc = "select"
  /\ commands.count < MaxCommands
  /\ commands' = [count |-> commands.count + 1, last |-> "RandomAccessMode"]
  /\ download_strategy' = "RandomAccess"
  /\ UNCHANGED <<file_size, dispatch_limit, waiting,
                 read_position, ping_time_ms, requested,
                 downloaded, poisoned, enginePc, number_of_open_requests,
                 network_response_times_ms, output, handoffs, prefetch,
                 file_data, finish_queue, receivers, samples>>

\* handle_stream_loader_command, StreamLoaderCommand::StreamMode
CmdStreamMode(download_rate) ==
  /\ enginePc = "select"
  /\ commands.count < MaxCommands
  /\ commands' = [count |-> commands.count + 1, last |-> "StreamMode"]
  /\ download_strategy' = "Streaming"
  /\ trigger_preload(number_of_open_requests, download_rate, "StreamMode")
  /\ UNCHANGED <<file_size, dispatch_limit, waiting,
                 read_position, ping_time_ms, requested,
                 downloaded, poisoned, number_of_open_requests,
                 network_response_times_ms, output, handoffs, file_data,
                 finish_queue, receivers, samples>>

\* handle_stream_loader_command, StreamLoaderCommand::Close
CmdClose ==
  /\ enginePc = "select"
  /\ commands.count < MaxCommands
  /\ commands' = [count |-> commands.count + 1, last |-> "Close"]
  /\ enginePc' = "closed"
  /\ file_data' = <<>>
  /\ finish_queue' = 0
  /\ UNCHANGED <<file_size, dispatch_limit, waiting,
                 read_position, download_strategy, ping_time_ms,
                 requested, downloaded, poisoned, number_of_open_requests,
                 network_response_times_ms, output, handoffs, prefetch,
                 receivers, samples>>

\* the command arm as it would be if a closed queue completed the download
CommandsClosed_HandsOff ==
  /\ enginePc = "select"
  /\ enginePc' = "complete"
  /\ handoffs' = handoffs + 1
  /\ file_data' = <<>>
  /\ finish_queue' = 0
  /\ UNCHANGED <<file_size, dispatch_limit, waiting,
                 read_position, download_strategy, ping_time_ms,
                 requested, downloaded, poisoned, number_of_open_requests,
                 network_response_times_ms, output, prefetch,
                 commands, receivers, samples>>

\* audio_file_fetch, the command arm when recv() returns None
CommandsClosed ==
  /\ enginePc = "select"
  /\ enginePc' = "closed"
  /\ file_data' = <<>>
  /\ finish_queue' = 0
  /\ UNCHANGED <<file_size, dispatch_limit, waiting,
                 read_position, download_strategy, ping_time_ms,
                 requested, downloaded, poisoned, number_of_open_requests,
                 network_response_times_ms, output, handoffs, prefetch,
                 commands, receivers, samples>>

\* the strategy test as it would be if it never held
ShouldPreload_Never(strategy) == FALSE

\* the strategy test as it would be if it ignored the strategy
ShouldPreload_Always(strategy) == TRUE

\* audio_file_fetch, the download_finish_rx arm: the strategy test
ShouldPreload(strategy) == strategy = "Streaming"

\* audio_file_fetch, the download_finish_rx arm of the select
HandleFinished(download_rate) ==
  /\ enginePc = "select"
  /\ finish_queue > 0
  /\ finish_queue' = finish_queue - 1
  /\ number_of_open_requests' = number_of_open_requests - 1
  /\ IF ShouldPreload(download_strategy)
     THEN trigger_preload(number_of_open_requests - 1, download_rate,
                          "Finished")
     ELSE /\ download_rate = Min(DownloadRates)
          /\ UNCHANGED <<enginePc, prefetch>>
  /\ UNCHANGED <<file_size, dispatch_limit, waiting,
                 read_position, download_strategy, ping_time_ms,
                 requested, downloaded, poisoned, network_response_times_ms,
                 output, handoffs, file_data, commands, receivers, samples>>

\* the external reader finds the byte at the read cursor not downloaded and
\* blocks on the condition variable (it checks and waits under the lock)
ReaderWait ==
  /\ waiting \in {"running", "woken"}
  /\ ~poisoned
  /\ read_position < file_size
  /\ read_position \notin downloaded
  /\ waiting' = "blocked"
  /\ UNCHANGED <<file_size, dispatch_limit, read_position,
                 download_strategy, ping_time_ms, requested, downloaded,
                 poisoned, enginePc, number_of_open_requests,
                 network_response_times_ms, output, handoffs, prefetch,
                 file_data, finish_queue, commands, receivers, samples>>

\* the woken reader finds its byte downloaded and goes on
ReaderProceed ==
  /\ waiting = "woken"
  /\ ~poisoned
  /\ read_position \in downloaded
  /\ waiting' = "running"
  /\ UNCHANGED <<file_size, dispatch_limit, read_position,
                 download_strategy, ping_time_ms, requested, downloaded,
                 poisoned, enginePc, number_of_open_requests,
                 network_response_times_ms, output, handoffs, prefetch,
                 file_data, finish_queue, commands, receivers, samples>>

\* the external reader moves the read cursor
SetReadPosition(position) ==
  /\ EngineRunning
  /\ waiting = "running"
  /\ position <= file_size
  /\ position # read_position
  /\ read_position' = position
  /\ UNCHANGED <<file_size, dispatch_limit, waiting,
                 download_strategy, ping_time_ms, requested,
                 downloaded, poisoned, enginePc, number_of_open_requests,
                 network_response_times_ms, output, handoffs, prefetch,
                 file_data, finish_queue, commands, receivers, samples>>

\* ------------------------------------------------------- specifications
\* audio_file_fetch up to the loop: the initial range is marked requested,
\* its receiver is spawned and the open-request count starts at 1.  The
\* shared context comes from the caller: nothing is downloaded, the read
\* cursor and the ping estimate are 0, the strategy is either one.
InitFor(size, limit) ==
  /\ file_size = size
  /\ dispatch_limit = limit
  /\ waiting = "running"
  /\ read_position = 0
  /\ download_strategy \in {"RandomAccess", "Streaming"}
  /\ ping_time_ms = 0
  /\ \E initial_data_length \in InitialLengths :
       /\ requested = Range(0, initial_data_length)
       /\ receivers = <<NewReceiver(0, initial_data_length, TRUE)>>
  /\ downloaded = {}
  /\ poisoned = FALSE
  /\ enginePc = "select"
  /\ number_of_open_requests = 1
  /\ network_response_times_ms = <<>>
  /\ output = {}
  /\ handoffs = 0
  /\ prefetch = NoPrefetch
  /\ file_data = <<>>
  /\ finish_queue = 0
  /\ commands = [count |-> 0, last |-> "none"]
  /\ samples = <<>>

Init == \E size \in FileSizes : InitFor(size, MaxDispatch)

Receive ==
  \E r \in 1..Len(receivers) :
    \/ \E size \in ChunkSizes, duration \in Durations :
         RecvChunk(r, size, duration)
    \/ \E res \in {"ok", "err"} : RecvStop(r, res)
    \/ RecvFinish(r)

Command ==
  \/ \E start \in FetchStarts, length \in FetchLengths :
       CmdFetch(start, length)
  \/ CmdRandomAccessMode
  \/ \E download_rate \in DownloadRates : CmdStreamMode(download_rate)
  \/ CmdClose
  \/ CommandsClosed

Engine ==
  \/ Command
  \/ HandleFileData
  \/ \E download_rate \in DownloadRates : HandleFinished(download_rate)
  \/ PrefetchChoose
  \/ PrefetchCall

Reader == \E position \in ReadPositions : SetReadPosition(position)

Next == Receive \/ Engine \/ Reader

Spec == Init /\ [][Next]_vars

\* the latency estimator alone: the engine processes ResponseTimeMs events
\* with arbitrary samples
FeedSample(ms) ==
  /\ enginePc = "select"
  /\ Len(samples) < MaxSamples
  /\ ResponseTimeMs(ms)
  /\ UNCHANGED <<file_size, dispatch_limit, waiting,
                 read_position, download_strategy, requested,
                 downloaded, poisoned, enginePc, number_of_open_requests,
                 output, handoffs, prefetch, file_data, finish_queue,
                 commands, receivers>>

NextPing == \E ms \in 0..MAXIMUM_ASSUMED_PING_TIME_MS : FeedSample(ms)

SpecPing == Init /\ [][NextPing]_vars

\* the engine in RandomAccess mode with a reader that blocks until the byte
\* at its read cursor is downloaded; the commands are Fetch and Close
InitReader == Init /\ download_strategy = "RandomAccess"

NextReader ==
  \/ Receive
  \/ \E start \in FetchStarts, length \in FetchLengths :
       CmdFetch(start, length)
  \/ CmdClose
  \/ HandleFileData
  \/ \E download_rate \in DownloadRates : HandleFinished(download_rate)
  \/ Reader
  \/ ReaderWait
  \/ ReaderProceed

SpecReader == InitReader /\ [][NextReader]_vars

\* the same with receiver tasks that are scheduled and a transport that
\* ends every stream: a receiver that can take a step eventually takes one
SpecReaderFair == SpecReader /\ WF_vars(Receive)

\* the engine in Streaming mode on a larger file, with a transport that
\* delivers whole words or stops; the only commands are Fetch commands
InitStream ==
  /\ \E size \in StreamFileSizes : InitFor(size, MaxStreamDispatch)
  /\ download_strategy = "Streaming"

ReceiveStream ==
  \E r \in 1..Len(receivers) :
    \/ \E size \in StreamChunkSizes, duration \in Durations :
         RecvChunk(r, size, duration)
    \/ RecvStop(r, "ok")
    \/ RecvFinish(r)

NextStream ==
  \/ ReceiveStream
  \/ \E start \in StreamFetchStarts, length \in FetchLengths :
       CmdFetch(start, length)
  \/ HandleFileData
  \/ \E download_rate \in DownloadRates : HandleFinished(download_rate)
  \/ PrefetchChoose
  \/ PrefetchCall

SpecStream == InitStream /\ [][NextStream]_vars

\* ------------------------------------------------------------ properties
\* the byte range a receiver was dispatched with
RequestRange(r) == Range(receivers[r].offset, receivers[r].length)

\* the receivers download_range dispatched (the first one is the initial one)
Dispatched == 2..Len(receivers)

\* C1: every range request download_range dispatches has a start and a length
\* that are multiples of 4, and the alignment assertions of request_range
\* never fail.
C1_AlignedRequests ==
  /\ enginePc # "panicked"
  /\ \A r \in Dispatched :
       receivers[r].offset % WORD = 0 /\ receivers[r].length % WORD = 0

\* C2 as stated: no two requests whose receivers have not yet sent their
\* completion signal cover overlapping byte ranges.
C2_NoOverlapUntilSignal ==
  \A i, j \in 1..Len(receivers) :
    (i # j /\ receivers[i].signals = 0 /\ receivers[j].signals = 0)
      => RequestRange(i) \cap RequestRange(j) = {}

\* C2 amended: no two requests whose receivers are still in their receive
\* loop (not yet satisfied, ended or failed) cover overlapping byte ranges.
C2_NoOverlapWhileReceiving ==
  \A i, j \in 1..Len(receivers) :
    (i # j /\ receivers[i].pc = "loop" /\ receivers[j].pc = "loop")
      => RequestRange(i) \cap RequestRange(j) = {}

\* two requests are being received at the same time
C2_Witness ==
  \E i, j \in 1..Len(receivers) :
    i # j /\ receivers[i].pc = "loop" /\ receivers[j].pc = "loop"

\* C3: the output is handed off at most once, only when downloaded covers
\* every byte of [0, file_size), and never when the loop ends on Close, on a
\* closed channel or on a failure.
C3_HandoffOnlyWhenFull ==
  /\ handoffs <= 1
  /\ handoffs = 1 =>
       (Range(0, file_size) \subseteq downloaded /\ enginePc = "complete")
  /\ enginePc \in {"closed", "panicked"} => handoffs = 0

\* the output has been handed off
C3_Witness == handoffs = 1 /\ enginePc = "complete"

\* C4: once a Data event makes downloaded cover [0, file_size) the engine has
\* handed off its output in that same step and the loop has ended; after that
\* the engine dispatches no request and stays ended.
C4_CompletionEndsLoop ==
  /\ [](Range(0, file_size) \subseteq downloaded
          => (enginePc = "complete" /\ handoffs = 1))
  /\ [][enginePc = "complete"
          => (receivers' = receivers \/
                (Len(receivers') = Len(receivers) /\ enginePc' = "complete"))
     ]_vars

\* the file is complete while a receiver is still running
C4_Witness ==
  /\ Range(0, file_size) \subseteq downloaded
  /\ enginePc = "complete"
  /\ \E r \in 1..Len(receivers) : receivers[r].pc # "done"
\* C5: when a receiver leaves its loop with bytes of its request missing, the
\* trailing range [data_offset, data_offset + request_length) is removed from
\* requested in that step and nothing else is (the forwarded prefix stays).
C5_TrailingRangeRetracted ==
  [][\A r \in 1..Len(receivers) :
       (receivers[r].pc = "loop" /\ receivers'[r].pc # "loop"
          /\ receivers'[r].request_length > 0)
         => requested' = requested \ Range(receivers[r].data_offset,
                                           receivers[r].request_length)
    ]_vars

\* C6: a receiver that has ended has sent exactly one completion signal, and
\* while the engine runs the open-request count is the number of requests
\* whose completion signal the engine has not yet processed.
C6_OneSignalPerReceiver ==
  /\ \A r \in 1..Len(receivers) :
       /\ receivers[r].signals <= 1
       /\ receivers[r].pc \in {"done", "panicked"} => receivers[r].signals = 1
  /\ number_of_open_requests >= 0
  /\ EngineRunning =>
       number_of_open_requests =
         Cardinality({r \in 1..Len(receivers) : receivers[r].signals = 0})
           + finish_queue

\* the receiver got more bytes than its request asked for
OverDelivered(rec) == rec.data_offset > rec.offset + rec.length

\* C7 as stated: bytes beyond the requested range are neither written to the
\* output nor added to downloaded, so both stay within the requested ranges.
C7_ExcessIgnored ==
  (downloaded \cup output)
    \subseteq UNION {RequestRange(r) : r \in 1..Len(receivers)}

\* C7 amended: the chunk that over-delivers is forwarded whole and ends the
\* receiver's loop without a retraction; the engine writes every byte of a
\* Data event to the output and adds it to downloaded; the receiver then
\* sends one completion signal.
C7_ExcessForwarded ==
  [][/\ \A r \in 1..Len(receivers) :
          (receivers[r].pc = "loop" /\ OverDelivered(receivers'[r]))
            => /\ receivers'[r].pc = "finish"
               /\ receivers'[r].request_length = 0
               /\ requested' = requested
               /\ EngineRunning =>
                    /\ file_data' # <<>>
                    /\ LET e == file_data'[Len(file_data')]
                       IN /\ e.kind = "Data"
                          /\ e.offset = receivers[r].data_offset
                          /\ e.offset + e.len = receivers'[r].data_offset
     /\ (enginePc = "select" /\ enginePc' \in {"select", "complete"}
           /\ Len(file_data') < Len(file_data)
           /\ Head(file_data).kind = "Data")
          => Range(Head(file_data).offset, Head(file_data).len)
               \subseteq (downloaded' \cap output')
     /\ \A r \in 1..Len(receivers) :
          (OverDelivered(receivers[r]) /\ receivers[r].pc = "finish"
             /\ receivers'[r].pc # "finish")
            => /\ receivers'[r].pc = "done"
               /\ receivers'[r].signals = 1
               /\ requested' = requested
    ]_vars

\* the only request over-delivered, its excess is downloaded and written, and
\* its receiver has signalled completion
C7_Witness ==
  /\ Len(receivers) = 1
  /\ OverDelivered(receivers[1])
  /\ receivers[1].pc = "done"
  /\ receivers[1].offset + receivers[1].length \in (downloaded \cap output)

\* the engine returns from a handler to its select
Returns == enginePc # "select" /\ enginePc' = "select"

\* C8 as stated: processing StreamMode while a byte at or after the read
\* cursor is missing dispatches at least one request before the engine
\* returns to its select.
C8_StreamModeDispatches ==
  [][/\ ((\E download_rate \in DownloadRates : CmdStreamMode(download_rate))
           /\ TailEnd # {})
          => enginePc' # "select"
     /\ (Returns /\ prefetch.by = "StreamMode" /\ prefetch.ahead)
          => Len(receivers) > prefetch.start
    ]_vars

\* C8 amended: if moreover the open-request count is below the maximum and
\* the bytes pending are fewer than the desired pending bytes, StreamMode
\* starts a prefetch pass, and that pass does not return to the select before
\* it has dispatched a request (it ends otherwise only on the failed
\* alignment assertion).
C8_StreamModePrefetches ==
  [][/\ \A download_rate \in DownloadRates :
          (CmdStreamMode(download_rate) /\ TailEnd # {}
             /\ number_of_open_requests < MAX_PREFETCH_REQUESTS
             /\ BytesPending < DesiredPendingBytes(download_rate))
            => (enginePc' = "prefetch_loop" /\ prefetch'.ahead)
     /\ (Returns /\ prefetch.by = "StreamMode" /\ prefetch.ahead)
          => Len(receivers) > prefetch.start
    ]_vars

\* a pass started by StreamMode with bytes missing ahead has dispatched
C8_Witness ==
  /\ enginePc = "prefetch_loop"
  /\ prefetch.by = "StreamMode"
  /\ prefetch.ahead
  /\ Len(receivers) > prefetch.start

\* C9: in RandomAccess mode, processing a request-finished signal only
\* decrements the open-request count, and a request is dispatched only by a
\* Fetch command.
C9_NoPrefetchInRandomAccess ==
  [][download_strategy = "RandomAccess" =>
       /\ (enginePc = "select" /\ finish_queue' = finish_queue - 1
             /\ enginePc' \in {"select", "prefetch_loop", "prefetch_call"})
            => /\ number_of_open_requests' = number_of_open_requests - 1
               /\ receivers' = receivers
               /\ enginePc' = "select"
       /\ Len(receivers') > Len(receivers)
            => (commands'.last = "Fetch"
                  /\ commands'.count = commands.count + 1)
    ]_vars

\* RandomAccessMode was the last command and the completion signal of the
\* only request has been processed without a dispatch
C9_Witness ==
  /\ commands.last = "RandomAccessMode"
  /\ download_strategy = "RandomAccess"
  /\ enginePc = "select"
  /\ number_of_open_requests = 0
  /\ Len(receivers) = 1

\* the last n elements of a sequence
LastN(seq, n) == SubSeq(seq, Len(seq) - n + 1, Len(seq))

\* the median of three samples, by counting
Median(window) ==
  CHOOSE m \in {window[i] : i \in 1..3} :
    /\ Cardinality({i \in 1..3 : window[i] <= m}) >= 2
    /\ Cardinality({i \in 1..3 : window[i] >= m}) >= 2

\* C10: the window holds the at most 3 most recent samples in arrival order
\* and the estimate is the sample, the integer mean or the median for 1, 2 or
\* 3 samples in the window.
C10_LatencyEstimate ==
  LET n == Len(samples)
      w == network_response_times_ms
  IN /\ w = LastN(samples, IF n < 3 THEN n ELSE 3)
     /\ n = 1 => ping_time_ms = samples[1]
     /\ n = 2 => ping_time_ms = (samples[1] + samples[2]) \div 2
     /\ n >= 3 => ping_time_ms = Median(LastN(samples, 3))

\* more than three samples were fed and the oldest differs from the rest
C10_Witness ==
  /\ Len(samples) > 3
  /\ samples[1] # samples[Len(samples)]
  /\ Len(network_response_times_ms) = 3
\* [offset, offset + length) clipped to [0, file_size)
ClippedToFile(offset, length) == Range(offset, length) \cap Range(0, file_size)

\* C11: when download_range(offset, length) returns, every byte of
\* [offset, offset + length) clipped to [0, file_size) is in requested or in
\* downloaded (download_range is called by Fetch and by the prefetch pass).
C11_RequestedRangeCovered ==
  [][/\ \A start \in FetchStarts, length \in FetchLengths :
          (CmdFetch(start, length) /\ enginePc' # "panicked")
            => ClippedToFile(start, length)
                 \subseteq (requested' \cup downloaded')
     /\ (PrefetchCall /\ enginePc' # "panicked")
          => ClippedToFile(prefetch.offset, prefetch.length)
               \subseteq (requested' \cup downloaded')
    ]_vars

\* a Fetch at an offset off the word boundary has returned and its request
\* starts at the word before
C11_Witness ==
  /\ commands.last = "Fetch"
  /\ enginePc = "select"
  /\ Len(receivers) = 2
  /\ receivers[2].offset = 4
  /\ 5 \in requested
\* C12: every step that grows downloaded or shrinks requested wakes the
\* threads blocked on the condition variable, so the reader is never blocked
\* while the byte it waits for is downloaded.
C12_WaitersWoken ==
  /\ [](waiting = "blocked" => read_position \notin downloaded)
  /\ [][(downloaded' # downloaded \/ ~(requested \subseteq requested'))
          => waiting' # "blocked"]_vars

\* the blocked reader has been woken by the Data event that brought its byte
C12_Witness ==
  /\ waiting = "woken"
  /\ read_position = 4
  /\ read_position \in downloaded
  /\ enginePc = "select"
C14_PrefetchCap ==
  enginePc \in {"prefetch_loop", "prefetch_call"}
    => number_of_open_requests <= MAX_PREFETCH_REQUESTS
\* the bytes of the file that are neither downloaded nor requested
Unrequested ==
  {b \in 0..(file_size - 1) : b \notin downloaded /\ b \notin requested}

\* C15: an iteration of the prefetch pass hands download_range a range that
\* starts at the lowest missing offset at or after the read cursor if there
\* is one, else at the lowest missing offset of the file; when nothing is
\* missing the pass ends without a dispatch.
C15_TailFirst ==
  [][/\ (enginePc = "prefetch_loop" /\ enginePc' = "prefetch_call")
          => LET ahead == {b \in Unrequested : b >= read_position}
             IN /\ Unrequested # {}
                /\ prefetch'.length > 0
                /\ prefetch'.offset = IF ahead # {} THEN Min(ahead)
                                      ELSE Min(Unrequested)
     /\ (enginePc = "prefetch_loop" /\ enginePc' # enginePc
           /\ Unrequested = {})
          => (enginePc' = "select" /\ Len(receivers') = Len(receivers))
     /\ (enginePc = "prefetch_call" /\ Len(receivers') > Len(receivers))
          => \E b \in Unrequested :
               /\ b = prefetch.offset
               /\ b \in requested'
    ]_vars

\* the pass has chosen a range at the read cursor while bytes before the
\* cursor are missing too
C15_Witness ==
  /\ enginePc = "prefetch_call"
  /\ read_position > 0
  /\ prefetch.offset >= read_position
  /\ \E b \in Unrequested : b < read_position
\* the bytes a receiver retracted from requested when it left its loop
Retracted(r) ==
  IF receivers[r].pc \in {"finish", "done"} /\ receivers[r].request_length > 0
  THEN Range(receivers[r].data_offset, receivers[r].request_length)
  ELSE {}

\* nothing is left to happen without a command: the engine waits in its
\* select, its queues are empty and every receiver has ended
Quiescent ==
  /\ enginePc = "select"
  /\ file_data = <<>>
  /\ finish_queue = 0
  /\ \A r \in 1..Len(receivers) : receivers[r].pc = "done"

\* C16 as stated: in Streaming mode without commands every retracted range is
\* requested again; so once nothing is left to happen, no retracted byte of
\* the file is missing.
C16_RetractedRequestedAgain ==
  (download_strategy = "Streaming" /\ commands.count = 0 /\ Quiescent)
    => \A r \in 1..Len(receivers) :
         (Retracted(r) \cap Range(0, file_size))
           \subseteq (requested \cup downloaded)

\* C16 amended: in Streaming mode, processing a completion signal while the
\* open-request count (after the decrement) is below the maximum and the
\* bytes pending are fewer than the desired pending bytes starts a prefetch
\* pass; the first iteration of that pass, if a byte is missing, calls
\* download_range, and each call either dispatches a request that covers the
\* chosen missing offset or fails the alignment assertion.
C16_RetryByPrefetch ==
  [][/\ \A download_rate \in DownloadRates :
          (HandleFinished(download_rate)
             /\ download_strategy = "Streaming"
             /\ number_of_open_requests - 1 < MAX_PREFETCH_REQUESTS
             /\ BytesPending < DesiredPendingBytes(download_rate))
            => (enginePc' = "prefetch_loop" /\ prefetch'.by = "Finished")
     /\ (enginePc = "prefetch_loop" /\ enginePc' # enginePc
           /\ prefetch.by = "Finished"
           /\ Len(receivers) = prefetch.start /\ Unrequested # {})
          => enginePc' = "prefetch_call"
     /\ (enginePc = "prefetch_call" /\ enginePc' # enginePc
           /\ prefetch.by = "Finished")
          => \/ enginePc' = "panicked"
             \/ /\ Len(receivers') > Len(receivers)
                /\ prefetch.offset \in requested'
    ]_vars

\* a pass started by a completion signal has requested again bytes that an
\* earlier receiver retracted
C16_Witness ==
  /\ enginePc = "prefetch_loop"
  /\ prefetch.by = "Finished"
  /\ \E r, j \in 1..Len(receivers) :
       /\ r < j
       /\ j > prefetch.start
       /\ Retracted(r) \cap RequestRange(j) # {}
\* C17: a Close command ends the loop at once without a hand-off, and no
\* request is dispatched afterwards; a receiver in flight goes on: when it
\* leaves its loop it retracts its unfulfilled trailing range and wakes the
\* waiters, then it sends its completion signal and ends; every receiver
\* ends.
C17_CloseLeavesReceivers ==
  /\ [][/\ CmdClose
            => /\ enginePc' = "closed"
               /\ handoffs' = handoffs
               /\ receivers' = receivers
               /\ requested' = requested
        /\ enginePc = "closed"
            => /\ enginePc' = "closed"
               /\ handoffs' = 0
               /\ Len(receivers') = Len(receivers)
        /\ \A r \in 1..Len(receivers) :
             (enginePc = "closed" /\ receivers[r].pc = "loop"
                /\ receivers'[r].pc # "loop")
               => /\ receivers'[r].pc = "finish"
                  /\ requested' =
                       requested \ Range(receivers'[r].data_offset,
                                         receivers'[r].request_length)
                  /\ receivers'[r].request_length > 0
                       => waiting' # "blocked"
        /\ \A r \in 1..Len(receivers) :
             (enginePc = "closed" /\ receivers[r].pc = "finish"
                /\ receivers'[r].pc # "finish")
               => (receivers'[r].pc = "done" /\ receivers'[r].signals = 1)
       ]_vars
  /\ (enginePc = "closed")
       ~> (\A r \in 1..Len(receivers) : receivers[r].pc = "done")

\* after a Close every receiver has ended, none of their signals was
\* processed, and one of them retracted its trailing range, which woke the
\* blocked reader
C17_Witness ==
  /\ enginePc = "closed"
  /\ commands.last = "Close"
  /\ Len(receivers) = number_of_open_requests
  /\ \A r \in 1..Len(receivers) : receivers[r].pc = "done"
  /\ \E r \in 1..Len(receivers) :
       Retracted(r) # {} /\ Retracted(r) \cap requested = {}
  /\ waiting = "woken"
\* C18 as stated: every request download_range dispatches is at least
\* MINIMUM_DOWNLOAD_SIZE bytes long unless it reaches the end of the file.
C18_MinimumRequestSize ==
  \A r \in Dispatched :
    \/ receivers[r].length >= MINIMUM_DOWNLOAD_SIZE
    \/ receivers[r].offset + receivers[r].length >= file_size

\* C18 amended: a request download_range dispatches is at least
\* MINIMUM_DOWNLOAD_SIZE bytes long unless it reaches the end of the file or
\* it borders on a byte that was downloaded or requested before the call.
C18_MinimumUnlessBordered ==
  [][\A r \in (Len(receivers) + 1)..Len(receivers') :
       LET first == receivers'[r].offset
           next == receivers'[r].offset + receivers'[r].length
       IN \/ receivers'[r].length >= MINIMUM_DOWNLOAD_SIZE
          \/ next >= file_size
          \/ (first - 1) \in (requested \cup downloaded)
          \/ next \in (requested \cup downloaded)
    ]_vars

\* a request shorter than the minimum that does not reach the end of the file
C18_Witness ==
  \E r \in Dispatched :
    /\ receivers[r].length < MINIMUM_DOWNLOAD_SIZE
    /\ receivers[r].offset + receivers[r].length < file_size
\* no completion signal has been processed yet
NoSignalProcessed == number_of_open_requests = Len(receivers)

\* C19 as stated: when the engine processes the completion signal of a
\* request, requested contains none of the bytes that request failed to
\* deliver; so it contains none while the signal waits to be processed.
C19_ExcludedWhenSignalled ==
  \A r \in 1..Len(receivers) :
    (EngineRunning /\ NoSignalProcessed /\ finish_queue > 0
       /\ receivers[r].pc = "done")
      => Retracted(r) \cap requested = {}

\* C19 amended: from the retraction on, which precedes the completion
\* signal, requested contains a byte that request failed to deliver only if
\* a request dispatched after it covers that byte.
C19_RetractedBeforeSignal ==
  \A r \in 1..Len(receivers) :
    receivers[r].pc \in {"finish", "done"}
      => (Retracted(r) \cap requested) \subseteq
           UNION {RequestRange(j) : j \in (r + 1)..Len(receivers)}

\* the signal of a request that failed to deliver bytes waits to be
\* processed, and requested contains none of these bytes
C19_Witness ==
  /\ enginePc = "select"
  /\ finish_queue > 0
  /\ NoSignalProcessed
  /\ \E r \in 1..Len(receivers) :
       /\ receivers[r].pc = "done"
       /\ Retracted(r) # {}
       /\ Retracted(r) \cap requested = {}
\* the events a step appends to the data inbox
Posted ==
  IF Len(file_data') > Len(file_data)
  THEN SubSeq(file_data', Len(file_data) + 1, Len(file_data'))
  ELSE <<>>

\* C20: a request download_range dispatches is flagged for a latency sample
\* only if the open-request count is 0 when it is dispatched, the initial
\* request is flagged; a receiver posts a ResponseTimeMs event only with its
\* first chunk, right before the Data event of that chunk, only if it is
\* flagged, and never a second one.
C20_OneSamplePerFlaggedRequest ==
  /\ [](receivers[1].flagged)
  /\ [][/\ \A r \in (Len(receivers) + 1)..Len(receivers') :
             receivers'[r].flagged
               => number_of_open_requests + (r - Len(receivers) - 1) = 0
        /\ \A r \in 1..Len(receivers) :
             /\ receivers'[r].flagged = receivers[r].flagged
             /\ ~receivers[r].measure_ping_time
                  => ~receivers'[r].measure_ping_time
             /\ receivers'[r].data_offset # receivers[r].data_offset
                  => ~receivers'[r].measure_ping_time
        /\ \A i \in 1..Len(Posted) :
             Posted[i].kind = "ResponseTimeMs"
               => LET r == Posted[i].rid
                  IN /\ i = 1 /\ Len(Posted) = 2
                     /\ Posted[2].kind = "Data" /\ Posted[2].rid = r
                     /\ receivers[r].flagged
                     /\ receivers[r].measure_ping_time
                     /\ receivers[r].data_offset = receivers[r].offset
                     /\ Posted[2].offset = receivers[r].offset
        /\ Posted # <<>>
             => \E r \in 1..Len(receivers) :
                  /\ receivers'[r].data_offset > receivers[r].data_offset
                  /\ Posted[Len(Posted)].kind = "Data"
                  /\ Posted[Len(Posted)].rid = r
       ]_vars

\* a request dispatched while no request was open has posted its latency
\* sample and the Data event of its first chunk
C20_Witness ==
  \E r \in Dispatched, i \in 1..Len(file_data) :
    /\ receivers[r].flagged
    /\ i < Len(file_data)
    /\ file_data[i].kind = "ResponseTimeMs" /\ file_data[i].rid = r
    /\ file_data[i + 1].kind = "Data" /\ file_data[i + 1].rid = r
====
